---- MODULE Spec2Model ----
(***************************************************************************)
(* A model of the retrieval-augmented generation notebook                  *)
(* (src/retrieval_augmented_generation.ipynb): documents are loaded, split *)
(* by RecursiveCharacterTextSplitter, embedded and stored in a FAISS       *)
(* vector store, and queried through a conversational retrieval chain.     *)
(* Texts are sequences of one-character strings.                           *)
(***************************************************************************)
EXTENDS Integers, Sequences, FiniteSets, TLC

VARIABLES
    config,           \* the arguments last given to the splitter's constructor
    docs,             \* the loaded documents (loader.load())
    text_splitter,    \* the splitter object, or NoSplitter
    splits,           \* the result of text_splitter.split_documents(docs)
    did_split,        \* whether the splitting cell has run
    error,            \* the exception raised by the last cell, or "none"
    embedding_model,  \* the embedding model the notebook names
    db,               \* the FAISS vector store, or NoDb
    builds,           \* how many times the indexing cell has run
    retrieved,        \* what the last call of the retriever returned
    chain,            \* the ConversationalRetrievalChain, or NoChain
    requests,         \* the calls of chain.invoke in flight, one per thread
    chat_history,     \* the notebook's chat_history
    llm_output,       \* the notebook's llm_output, or NoOutput
    retrieval_only,   \* whether the caller wants sources when no answer comes
    books,            \* the books list of the route handlers (./data)
    books0,           \* the books list as the module was loaded
    handlers,         \* the route handlers in flight
    applied,          \* the bodies pushed by POST, in the order of the pushes
    arrivals,         \* how many POST requests have arrived
    home              \* the renderings of the home page in flight

index_vars == <<embedding_model, db, builds, retrieved, chain, requests>>
caller_vars == <<chat_history, llm_output, retrieval_only>>
web_vars == <<books, books0, handlers, applied, arrivals, home>>

vars == <<config, docs, text_splitter, splits, did_split, error,
          embedding_model, db, builds, retrieved, chain, requests,
          chat_history, llm_output, retrieval_only,
          books, books0, handlers, applied, arrivals, home>>

(***************************************************************************)
(* Bounds of the model.                                                    *)
(***************************************************************************)
MaxLen == 5        \* longest document text
MaxChunk == 4      \* largest chunk_size and chunk_overlap tried

Letters == {"a", "b"}
Whitespace == {" ", "\n"}
Chars == Letters \cup Whitespace

Max(a, b) == IF a >= b THEN a ELSE b
Min(a, b) == IF a <= b THEN a ELSE b

\* every text of at most n characters
TextsUpTo(n) == UNION {[1..k -> Chars] : k \in 0..n}

(***************************************************************************)
(* Python string operations used by the splitter.                          *)
(***************************************************************************)
RECURSIVE lstrip(_)
lstrip(t) ==
    IF t # <<>> /\ Head(t) \in Whitespace THEN lstrip(Tail(t)) ELSE t

RECURSIVE rstrip(_)
rstrip(t) ==
    IF t # <<>> /\ t[Len(t)] \in Whitespace
    THEN rstrip(SubSeq(t, 1, Len(t) - 1))
    ELSE t

\* str.strip()
strip(t) == rstrip(lstrip(t))

\* s[-n:] for n > 0, and the empty string for n = 0
Suffix(t, n) == SubSeq(t, Len(t) - Min(n, Len(t)) + 1, Len(t))

\* s[:n]
Prefix(t, n) == SubSeq(t, 1, Min(n, Len(t)))

\* whether the literal pattern sep matches text at position i (1-based)
MatchesAt(text, i, sep) ==
    /\ sep # <<>>
    /\ i + Len(sep) - 1 <= Len(text)
    /\ SubSeq(text, i, i + Len(sep) - 1) = sep

\* re.search(re.escape(sep), text)
re_search(sep, text) == \E i \in 1..Len(text) : MatchesAt(text, i, sep)

(***************************************************************************)
(* A piece of a document: its text and, as bookkeeping the library does    *)
(* not keep, the 0-based offset in the document where the text was taken.  *)
(***************************************************************************)
Piece(t, start) == [text |-> t, start |-> start]

\* the least element of a non-empty set of integers
Least(S) == CHOOSE i \in S : \A j \in S : i <= j

\* the pieces re.split(f"({sep})", text) leaves once every separator is glued
\* to the front of the piece that follows it: the piece that began at b, and
\* the pieces after it, the scan for the next match standing at position i.
\* Matches are taken leftmost and do not overlap.
RECURSIVE SplitFrom(_, _, _, _, _)
SplitFrom(text, off, sep, b, i) ==
    LET found == {j \in i..Len(text) : MatchesAt(text, j, sep)}
    IN  IF found = {}
        THEN <<Piece(SubSeq(text, b, Len(text)), off + b - 1)>>
        ELSE LET j == Least(found)
             IN  <<Piece(SubSeq(text, b, j - 1), off + b - 1)>>
                     \o SplitFrom(text, off, sep, j, j + Len(sep))

\* split_text_with_regex leaving the separators out of the pieces
split_text_with_regex_DropsSeparator(text, off, sep) ==
    LET all == IF sep # <<>>
               THEN SplitFrom(text, off, sep, 1, 1)
               ELSE [i \in 1..Len(text) |-> Piece(<<text[i]>>, off + i - 1)]
        cut(p) == IF MatchesAt(p.text, 1, sep)
                  THEN Piece(SubSeq(p.text, Len(sep) + 1, Len(p.text)), p.start)
                  ELSE p
    IN  SelectSeq([i \in 1..Len(all) |-> cut(all[i])], LAMBDA p : p.text # <<>>)

\* _split_text_with_regex(text, separator, keep_separator=True)
split_text_with_regex(text, off, sep) ==
    LET all == IF sep # <<>>
               THEN SplitFrom(text, off, sep, 1, 1)
               ELSE [i \in 1..Len(text) |-> Piece(<<text[i]>>, off + i - 1)]
    IN  SelectSeq(all, LAMBDA p : p.text # <<>>)

(***************************************************************************)
(* TextSplitter._join_docs and TextSplitter._merge_splits.                 *)
(***************************************************************************)
\* separator.join of the texts of ds[lo..hi], joined by halves
RECURSIVE JoinRange(_, _, _, _)
JoinRange(ds, lo, hi, separator) ==
    IF lo > hi THEN <<>>
    ELSE IF lo = hi THEN ds[lo].text
    ELSE LET mid == (lo + hi) \div 2
         IN  JoinRange(ds, lo, mid, separator) \o separator
                 \o JoinRange(ds, mid + 1, hi, separator)

JoinText(ds, separator) == JoinRange(ds, 1, Len(ds), separator)

\* the joined and stripped text, or <<>> (no chunk) when nothing is left
join_docs(ds, separator) ==
    LET text == JoinText(ds, separator)
        lead == Len(text) - Len(lstrip(text))
        st   == IF ds = <<>> THEN 0 ELSE ds[1].start
    IN  IF strip(text) = <<>> THEN <<>>
        ELSE <<Piece(strip(text), st + lead)>>

\* the running totals of the lengths of the texts of ds[lo..hi], by halves
RECURSIVE PrefixLens(_, _, _)
PrefixLens(ds, lo, hi) ==
    IF lo > hi THEN <<>>
    ELSE IF lo = hi THEN <<Len(ds[lo].text)>>
    ELSE LET mid == (lo + hi) \div 2
             left == PrefixLens(ds, lo, mid)
             right == PrefixLens(ds, mid + 1, hi)
         IN  left \o [i \in 1..Len(right) |-> left[Len(left)] + right[i]]

\* total once the while loop of _merge_splits has popped the first j of the
\* n entries of current_doc, whose running lengths are cum: each pop takes
\* off the entry's length, and separator_len while another entry is left
AfterPops(cum, n, total, j, separator_len) ==
    total - (IF j = 0 THEN 0 ELSE cum[j]) - separator_len * Min(j, n - 1)

\* the condition of the while loop once j entries are popped
KeepPopping(self, cum, n, total, len, separator_len, j) ==
    LET t == AfterPops(cum, n, total, j, separator_len)
    IN  \/ t > self.chunk_overlap
        \/ /\ t + len + (IF n - j > 0 THEN separator_len ELSE 0) > self.chunk_size
           /\ t > 0

\* what the while loop leaves when it stops after j pops
Popped(current_doc, cum, total, j, separator_len) ==
    [current_doc |-> SubSeq(current_doc, j + 1, Len(current_doc)),
     total |-> AfterPops(cum, Len(current_doc), total, j, separator_len),
     raised |-> FALSE]

\* PopLoop with the size test left out of the loop condition
PopLoop_NoSizeTest(self, current_doc, total, len, separator_len) ==
    LET n == Len(current_doc)
        cum == PrefixLens(current_doc, 1, n)
        j == Least({k \in 0..n :
                      \/ k = n
                      \/ AfterPops(cum, n, total, k, separator_len)
                            <= self.chunk_overlap})
    IN  Popped(current_doc, cum, total, j, separator_len)

\* PopLoop keeping up to chunk_size characters instead of chunk_overlap
PopLoop_KeepsSize(self, current_doc, total, len, separator_len) ==
    LET n == Len(current_doc)
        cum == PrefixLens(current_doc, 1, n)
        j == Least({k \in 0..n :
                      \/ k = n
                      \/ AfterPops(cum, n, total, k, separator_len) + len
                            <= self.chunk_size})
    IN  Popped(current_doc, cum, total, j, separator_len)

\* the while loop of _merge_splits: entries are popped from the front of
\* current_doc until the loop condition fails, which is after the least
\* number of pops that makes it fail. When it still holds with current_doc
\* empty, current_doc[0] raises IndexError (raised).
PopLoop(self, current_doc, total, len, separator_len) ==
    LET n == Len(current_doc)
        cum == PrefixLens(current_doc, 1, n)
        stops == {k \in 0..n :
                    ~KeepPopping(self, cum, n, total, len, separator_len, k)}
    IN  IF stops = {}
        THEN [current_doc |-> <<>>, total |-> total, raised |-> TRUE]
        ELSE Popped(current_doc, cum, total, Least(stops), separator_len)

\* MergeStep closing the chunk one character early: >= for >
MergeStep_ClosesEarly(self, m, d, separator) ==
    LET separator_len == Len(separator)
        len == Len(d.text)
        over == m.total + len
                  + (IF Len(m.current_doc) > 0 THEN separator_len ELSE 0)
                    >= self.chunk_size
        flush == over /\ Len(m.current_doc) > 0
        popped == IF flush
                  THEN PopLoop(self, m.current_doc, m.total, len, separator_len)
                  ELSE [current_doc |-> m.current_doc, total |-> m.total,
                        raised |-> FALSE]
        cur == Append(popped.current_doc, d)
    IN  IF m.raised THEN m
        ELSE [docs |-> IF flush THEN m.docs \o join_docs(m.current_doc, separator)
                       ELSE m.docs,
              current_doc |-> cur,
              total |-> popped.total + len
                          + (IF Len(cur) > 1 THEN separator_len ELSE 0),
              raised |-> popped.raised]

\* one iteration of the for loop of _merge_splits, on the split d
MergeStep(self, m, d, separator) ==
    LET separator_len == Len(separator)
        len == Len(d.text)
        over == m.total + len
                  + (IF Len(m.current_doc) > 0 THEN separator_len ELSE 0)
                    > self.chunk_size
        flush == over /\ Len(m.current_doc) > 0
        popped == IF flush
                  THEN PopLoop(self, m.current_doc, m.total, len, separator_len)
                  ELSE [current_doc |-> m.current_doc, total |-> m.total,
                        raised |-> FALSE]
        cur == Append(popped.current_doc, d)
    IN  IF m.raised THEN m
        ELSE [docs |-> IF flush THEN m.docs \o join_docs(m.current_doc, separator)
                       ELSE m.docs,
              current_doc |-> cur,
              total |-> popped.total + len
                          + (IF Len(cur) > 1 THEN separator_len ELSE 0),
              raised |-> popped.raised]

\* the for loop of _merge_splits over ds[lo..hi], in order, run by halves
RECURSIVE MergeLoop(_, _, _, _, _, _)
MergeLoop(self, m, ds, lo, hi, separator) ==
    IF m.raised \/ lo > hi THEN m
    ELSE IF lo = hi THEN MergeStep(self, m, ds[lo], separator)
    ELSE LET mid == (lo + hi) \div 2
         IN  MergeLoop(self, MergeLoop(self, m, ds, lo, mid, separator),
                       ds, mid + 1, hi, separator)

\* An exception leaves no list: it is carried up as the entry Raised.
Raised == Piece(<<>>, 0 - 1)

merge_splits(self, ds, separator) ==
    LET m == MergeLoop(self, [docs |-> <<>>, current_doc |-> <<>>, total |-> 0,
                              raised |-> FALSE],
                       ds, 1, Len(ds), separator)
    IN  IF m.raised THEN <<Raised>>
        ELSE m.docs \o join_docs(m.current_doc, separator)

(***************************************************************************)
(* RecursiveCharacterTextSplitter._split_text, with the default separators *)
(* and keep_separator=True, so that pieces are merged with "".             *)
(***************************************************************************)
separators == << <<"\n", "\n">>, <<"\n">>, <<" ">>, <<>> >>

\* the index of the first separator that is "" or occurs in text, else 0
FirstSep(text, seps) ==
    LET hit == {i \in 1..Len(seps) : seps[i] = <<>> \/ re_search(seps[i], text)}
    IN  IF hit = {} THEN 0 ELSE Least(hit)

RECURSIVE split_text(_, _, _, _)
RECURSIVE SplitLoop(_, _, _, _)

\* the for loop over splits, from the point where _good_splits is empty and
\* final_chunks is final: the splits before the first one that does not fit
\* are the _good_splits merged when it is met (or at the end of the loop);
\* the split that does not fit is kept whole or split by the separators left.
SplitLoop(self, ss, final, new_separators) ==
    LET big == {k \in 1..Len(ss) : ~(Len(ss[k].text) < self.chunk_size)}
    IN  IF big = {}
        THEN IF ss # <<>> THEN final \o merge_splits(self, ss, <<>>) ELSE final
        ELSE LET k == Least(big)
                 s == ss[k]
                 good == SubSeq(ss, 1, k - 1)
                 flushed == IF good # <<>>
                            THEN final \o merge_splits(self, good, <<>>)
                            ELSE final
                 mine == IF new_separators = <<>>
                         THEN <<s>>
                         ELSE split_text(self, s.text, s.start, new_separators)
             IN  SplitLoop(self, SubSeq(ss, k + 1, Len(ss)), flushed \o mine,
                           new_separators)

split_text(self, text, off, seps) ==
    LET i == FirstSep(text, seps)
        separator == IF i = 0 THEN seps[Len(seps)] ELSE seps[i]
        new_separators == IF i = 0 \/ seps[i] = <<>>
                          THEN <<>>
                          ELSE SubSeq(seps, i + 1, Len(seps))
    IN  SplitLoop(self, split_text_with_regex(text, off, separator),
                  <<>>, new_separators)

(***************************************************************************)
(* TextSplitter.split_documents: every document's chunks, in order, each   *)
(* carrying the document's metadata. seq and start are bookkeeping: the    *)
(* chunk's position among its document's chunks and its offset in the text.*)
(***************************************************************************)
DocChunks(self, doc) ==
    LET cs == split_text(self, doc.page_content, 0, separators)
    IN  [i \in 1..Len(cs) |->
            [source |-> doc.source, page_content |-> cs[i].text,
             start |-> cs[i].start, seq |-> i - 1]]

RECURSIVE split_documents(_, _)
split_documents(self, ds) ==
    IF ds = <<>> THEN <<>>
    ELSE DocChunks(self, Head(ds)) \o split_documents(self, Tail(ds))

(***************************************************************************)
(* HuggingFaceEmbeddings. The embedding model is an external, deterministic *)
(* function from a text to a vector of fixed dimension; the models below   *)
(* stand for it. Equal texts get equal vectors, different texts may.       *)
(***************************************************************************)
EmbeddingModels == {1, 2}
Coords == 0..2

CharCode(c) == IF c = "a" THEN 1 ELSE IF c = "b" THEN 2 ELSE 0

RECURSIVE Weigh(_, _, _)
Weigh(text, i, w) ==
    IF i > Len(text) THEN 0
    ELSE (i + w) * CharCode(text[i]) + Weigh(text, i + 1, w)

\* embed_query / one element of embed_documents
Embed(model, text) ==
    <<Weigh(text, 1, 0 - 1) % 3, Weigh(text, 1, model) % 3>>

\* embed_documents: the vectors of the texts, in the order of the texts
embed_documents(model, texts) ==
    <<>> \o [i \in 1..Len(texts) |-> Embed(model, texts[i])]

(***************************************************************************)
(* faiss.IndexFlatL2: the vectors in the order they were added; search     *)
(* scans them in that order and keeps the k nearest in a heap ordered by   *)
(* (distance, position).                                                   *)
(***************************************************************************)
RECURSIVE fvec_L2sqr(_, _)
fvec_L2sqr(x, y) ==
    IF x = <<>> THEN 0
    ELSE (Head(x) - Head(y)) * (Head(x) - Head(y))
            + fvec_L2sqr(Tail(x), Tail(y))

\* cmp2 of the heap, later ids first: ties come out in reverse
cmp2_LaterFirst(a, b) ==
    a.dis < b.dis \/ (a.dis = b.dis /\ a.id > b.id)

\* cmp2 of the heap: by distance, and by position among equal distances
cmp2(a, b) ==
    a.dis < b.dis \/ (a.dis = b.dis /\ a.id < b.id)

\* the heap as the sequence heap_reorder leaves: nearest first
heap_push(heap, e) ==
    LET before == Cardinality({j \in 1..Len(heap) : cmp2(heap[j], e)})
    IN  SubSeq(heap, 1, before) \o <<e>> \o SubSeq(heap, before + 1, Len(heap))

\* add_result that never replaces what a full heap holds
add_result_NeverReplaces(heap, k, dis, id) ==
    IF Len(heap) < k
    THEN heap_push(heap, [dis |-> dis, id |-> id])
    ELSE heap

\* HeapBlockResultHandler.add_result: a vector enters a full heap only when
\* it is strictly nearer than the worst one kept
add_result(heap, k, dis, id) ==
    IF Len(heap) < k
    THEN heap_push(heap, [dis |-> dis, id |-> id])
    ELSE IF dis < heap[k].dis
         THEN heap_push(SubSeq(heap, 1, k - 1), [dis |-> dis, id |-> id])
         ELSE heap

RECURSIVE exhaustive_L2sqr_seq(_, _, _, _, _)
exhaustive_L2sqr_seq(xb, x, k, j, heap) ==
    IF j > Len(xb) THEN heap
    ELSE exhaustive_L2sqr_seq(xb, x, k, j + 1,
            add_result(heap, k, fvec_L2sqr(x, xb[j]), j))

\* IndexFlatL2.search: k distances and k labels; positions the index cannot
\* fill carry the label -1
search(xb, x, k) ==
    LET heap == exhaustive_L2sqr_seq(xb, x, k, 1, <<>>)
    IN  [distances |-> <<>> \o [j \in 1..k |->
                            IF j <= Len(heap) THEN heap[j].dis ELSE 0 - 1],
         labels |-> <<>> \o [j \in 1..k |->
                            IF j <= Len(heap) THEN heap[j].id ELSE 0 - 1]]

(***************************************************************************)
(* langchain_community.vectorstores.FAISS                                  *)
(***************************************************************************)
NoDb == [index |-> <<>>, docstore |-> <<>>, index_to_docstore_id |-> <<>>,
         ready |-> FALSE]

\* [str(uuid.uuid4()) for _ in texts]: fresh, pairwise different ids; seed
\* stands for the state of the random source
uuid4(seed, n) == <<>> \o [i \in 1..n |-> ((i * seed) % 13) + 1]

\* Document(id=id_, page_content=t, metadata=m)
Document(id, chunk) ==
    [id |-> id, source |-> chunk.source, page_content |-> chunk.page_content,
     start |-> chunk.start, seq |-> chunk.seq]

\* InMemoryDocstore.add({id_: doc ...}) on the empty docstore
RECURSIVE docstore_add(_, _, _)
docstore_add(documents, ids, i) ==
    IF i > Len(ids) THEN <<>>
    ELSE (ids[i] :> Document(ids[i], documents[i]))
            @@ docstore_add(documents, ids, i + 1)

\* the positions 1..Len(ids) in the order of their ids
RECURSIVE ById(_, _)
ById(ids, left) ==
    IF left = {} THEN <<>>
    ELSE LET i == CHOOSE i \in left : \A j \in left : ids[i] <= ids[j]
         IN  <<i>> \o ById(ids, left \ {i})

\* __add storing the vectors in the order of their docstore ids
add_OrderedByIds(documents, embeddings, ids) ==
    LET order == ById(ids, 1..Len(ids))
    IN  [index |-> <<>> \o [j \in 1..Len(ids) |-> embeddings[order[j]]],
         docstore |-> docstore_add(documents, ids, 1),
         index_to_docstore_id |-> <<>> \o [j \in 1..Len(ids) |-> ids[order[j]]],
         ready |-> TRUE]

\* FAISS.__add on the empty store: index.add(vector), docstore.add, and
\* index_to_docstore_id, all in the order of the documents
add(documents, embeddings, ids) ==
    [index |-> embeddings,
     docstore |-> docstore_add(documents, ids, 1),
     index_to_docstore_id |-> ids,
     ready |-> TRUE]

\* from_documents building an index of whatever it is given
from_documents_raises_Never(documents) == FALSE

\* FAISS.from_documents -> from_texts -> __from: faiss.IndexFlatL2(
\* len(embeddings[0])) raises IndexError when there is no text
from_documents_raises(documents) == documents = <<>>

from_documents(documents, model, ids) ==
    add(documents,
        embed_documents(model,
            <<>> \o [i \in 1..Len(documents) |-> documents[i].page_content]),
        ids)

RECURSIVE SkipMissing(_, _, _)
SkipMissing(store, r, j) ==
    IF j > Len(r.labels) THEN <<>>
    ELSE IF r.labels[j] = 0 - 1 THEN SkipMissing(store, r, j + 1)
    ELSE <<[doc |-> store.docstore[store.index_to_docstore_id[r.labels[j]]],
            score |-> r.distances[j]]>> \o SkipMissing(store, r, j + 1)

\* FAISS.similarity_search_with_score_by_vector
similarity_search_with_score_by_vector(store, embedding, k) ==
    LET hits == SkipMissing(store, search(store.index, embedding, k), 1)
    IN  SubSeq(hits, 1, Min(k, Len(hits)))

\* FAISS.similarity_search_with_score
similarity_search_with_score(store, model, query, k) ==
    similarity_search_with_score_by_vector(store, Embed(model, query), k)

\* VectorStoreRetriever: search_type "similarity", k = 4 unless given
DefaultK == 4

\* db.as_retriever().invoke(query), the scores kept
get_relevant_documents(store, model, query) ==
    similarity_search_with_score(store, model, query, DefaultK)

(***************************************************************************)
(* ConversationalRetrievalChain                                            *)
(***************************************************************************)
MaxRequests == 2   \* threads calling chain.invoke

Threads == 1..MaxRequests
NoChain == [retriever |-> NoDb, ready |-> FALSE]
NoneFound == [query |-> <<>>, docs |-> <<>>, done |-> FALSE]
Idle == [pc |-> "idle", question |-> <<>>, chat_history |-> <<>>,
         new_question |-> <<>>, embedding |-> <<>>, docs |-> <<>>,
         answer |-> <<>>, calls |-> <<>>, raised |-> "none"]

\* the notebook before any question: chat_history = []
NoOutput == [question |-> <<>>, chat_history |-> <<>>, answer |-> <<>>,
             source_documents |-> <<>>, done |-> FALSE]

NotAsked ==
    /\ chat_history = <<>>
    /\ llm_output = NoOutput
    /\ retrieval_only = FALSE

(***************************************************************************)
(* The route handlers of the Next.js application, before any request.      *)
(***************************************************************************)
MaxHandlers == 2   \* route handlers in flight at once

HandlerIds == 1..MaxHandlers

\* JSON values as the handlers see them: an object with its id and name (a
\* field it lacks is undefined), null, or a number
Undefined == [t |-> "undefined", v |-> ""]
Num(v) == [t |-> "number", v |-> v]
Object(id, name) == [kind |-> "object", id |-> id, name |-> name]
Null == [kind |-> "null", id |-> Undefined, name |-> ""]

\* a request body: text that is JSON, with its value, or text that is not
Json(value) == [json |-> TRUE, value |-> value]
Malformed == [json |-> FALSE, value |-> Null]

\* a response: NextResponse.json(..) with the fields the handler gives it,
\* new NextResponse(text), or the 500 of a handler that threw
NoResponse ==
    [kind |-> "none", status |-> "", message |-> "", data |-> <<>>,
     updatedBook |-> 0, bookId |-> <<>>, text |-> ""]
InternalServerError == [NoResponse EXCEPT !.kind = "error"]

\* a rendering of the home page: where Home and getData stand, the fetches
\* made, the response of the quote API and whether its body was read, what
\* getData returned, the error thrown and what Home put in the page
NotRendering ==
    [pc |-> "idle", fetches |-> 0,
     res |-> [ok |-> FALSE, json |-> FALSE, kind |-> "none", content |-> <<>>],
     arrived |-> FALSE, bodyUsed |-> FALSE,
     quoteData |-> [kind |-> "none", content |-> <<>>],
     thrown |-> "", html |-> <<>>]

Free == [route |-> "none", pc |-> "free", body |-> Malformed, id |-> "",
         query |-> <<>>, ticket |-> 0, response |-> NoResponse]

NotServing ==
    /\ books = <<>>
    /\ books0 = <<>>
    /\ handlers = [h \in HandlerIds |-> Free]
    /\ applied = <<>>
    /\ arrivals = 0
    /\ home = [h \in HandlerIds |-> NotRendering]

\* the notebook before the indexing cell has run
NotIndexed ==
    /\ db = NoDb
    /\ builds = 0
    /\ retrieved = NoneFound
    /\ chain = NoChain
    /\ requests = [r \in Threads |-> Idle]

(***************************************************************************)
(* The cells of the notebook as actions.                                   *)
(***************************************************************************)
NoSplitter == [chunk_size |-> 0, chunk_overlap |-> 0, ready |-> FALSE]
NoConfig == [chunk_size |-> 0, chunk_overlap |-> 0, tried |-> FALSE]

\* RejectsConfig rejecting chunk_overlap = chunk_size as well
RejectsConfig_AtLeast(strict, chunk_size, chunk_overlap) ==
    \/ chunk_overlap >= chunk_size
    \/ strict /\ (chunk_size <= 0 \/ chunk_overlap < 0)

\* TextSplitter.__init__: the configurations the constructor rejects. Every
\* build of the library rejects chunk_overlap > chunk_size; the notebook pins
\* no version, and only some builds (strict) also reject chunk_size <= 0 and
\* chunk_overlap < 0.
RejectsConfig(strict, chunk_size, chunk_overlap) ==
    \/ chunk_overlap > chunk_size
    \/ strict /\ (chunk_size <= 0 \/ chunk_overlap < 0)

\* text_splitter = RecursiveCharacterTextSplitter(chunk_size=.., chunk_overlap=..)
NewSplitter(strict, chunk_size, chunk_overlap) ==
    /\ ~config.tried
    /\ config' = [chunk_size |-> chunk_size, chunk_overlap |-> chunk_overlap,
                  tried |-> TRUE]
    /\ IF RejectsConfig(strict, chunk_size, chunk_overlap)
       THEN /\ error' = "ValueError"
            /\ UNCHANGED text_splitter
       ELSE /\ text_splitter' = [chunk_size |-> chunk_size,
                                 chunk_overlap |-> chunk_overlap, ready |-> TRUE]
            /\ UNCHANGED error
    /\ UNCHANGED <<docs, splits, did_split>>
    /\ UNCHANGED index_vars
    /\ UNCHANGED <<caller_vars, web_vars>>

\* splits = text_splitter.split_documents(docs)
SplitDocuments ==
    /\ text_splitter.ready
    /\ error = "none"
    /\ ~did_split
    /\ LET out == split_documents(text_splitter, docs)
       IN  IF \E i \in 1..Len(out) : out[i].page_content = <<>>
           THEN /\ error' = "IndexError"
                /\ UNCHANGED <<splits, did_split>>
           ELSE /\ splits' = out
                /\ did_split' = TRUE
                /\ UNCHANGED error
    /\ UNCHANGED <<config, docs, text_splitter>>
    /\ UNCHANGED index_vars
    /\ UNCHANGED <<caller_vars, web_vars>>

InitChunk ==
    /\ config = NoConfig
    /\ docs \in {<<[source |-> 1, page_content |-> t]>> : t \in TextsUpTo(MaxLen)}
    /\ text_splitter = NoSplitter
    /\ splits = <<>>
    /\ did_split = FALSE
    /\ error = "none"
    /\ embedding_model = 1
    /\ NotIndexed
    /\ NotAsked
    /\ NotServing

NextChunk ==
    \/ \E cs \in (0 - 1)..MaxChunk, co \in (0 - 1)..MaxChunk :
          NewSplitter(TRUE, cs, co)
    \/ \E cs \in (0 - 1)..MaxChunk, co \in (0 - 1)..MaxChunk :
          NewSplitter(FALSE, cs, co)
    \/ SplitDocuments

SpecChunk == InitChunk /\ [][NextChunk]_vars

(***************************************************************************)
(* Properties of the Chunker, checked under SpecChunk.                     *)
(***************************************************************************)
\* the configurations the specification calls valid
ValidConfig ==
    /\ config.tried
    /\ config.chunk_size > 0
    /\ 0 <= config.chunk_overlap
    /\ config.chunk_overlap < config.chunk_size

ChunkEnd(c) == c.start + Len(c.page_content)

\* the pairs of consecutive chunks of one document
ConsecutivePairs ==
    {i \in 1..(Len(splits) - 1) : splits[i].source = splits[i + 1].source}

\* the number of document characters chunk i and chunk i+1 share
Shared(i) == Max(0, ChunkEnd(splits[i]) - splits[i + 1].start)

\* the text of the document a chunk was taken from
SourceText(c) ==
    LET d == CHOOSE k \in 1..Len(docs) : docs[k].source = c.source
    IN  docs[d].page_content

\* C1 as stated: every pair of consecutive chunks overlaps by exactly
\* chunk_overlap characters, the last chunk_overlap characters of chunk i
\* being the first chunk_overlap characters of chunk i+1.
C1_ExactOverlap ==
    (did_split /\ ValidConfig) =>
        \A i \in ConsecutivePairs :
            /\ Len(splits[i].page_content) >= config.chunk_overlap
            /\ Len(splits[i + 1].page_content) >= config.chunk_overlap
            /\ Suffix(splits[i].page_content, config.chunk_overlap)
                 = Prefix(splits[i + 1].page_content, config.chunk_overlap)

\* C1 amended: consecutive chunks share at most chunk_overlap characters of
\* the document, chunk i+1 never starts before chunk i, and the shared
\* characters are verbatim: the last m characters of chunk i are the first m
\* characters of chunk i+1, m being the number of characters shared.
C1_OverlapAtMost ==
    (did_split /\ ValidConfig) =>
        \A i \in ConsecutivePairs :
            /\ Shared(i) <= config.chunk_overlap
            /\ splits[i].start <= splits[i + 1].start
            /\ Shared(i) <= Len(splits[i + 1].page_content)
            /\ Suffix(splits[i].page_content, Shared(i))
                 = Prefix(splits[i + 1].page_content, Shared(i))

\* a split where two consecutive chunks share a positive number of characters,
\* fewer than chunk_overlap
C1_Witness ==
    /\ did_split /\ ValidConfig
    /\ \E i \in ConsecutivePairs :
          Shared(i) > 0 /\ Shared(i) < config.chunk_overlap

\* C3: every chunk is at most chunk_size characters long.
C3_ChunkFits ==
    (did_split /\ ValidConfig) =>
        \A i \in 1..Len(splits) : Len(splits[i].page_content) <= config.chunk_size

\* whether text holds a word (a run without whitespace) longer than n
HasLongWord(text, n) ==
    \E i \in 1..Len(text) :
        /\ i + n <= Len(text)
        /\ \A j \in i..(i + n) : text[j] \in Letters

\* a document with a word longer than chunk_size, split into overlapping chunks
C3_Witness ==
    /\ did_split /\ ValidConfig
    /\ config.chunk_overlap > 0
    /\ HasLongWord(docs[1].page_content, config.chunk_size)
    /\ re_search(<<" ">>, docs[1].page_content)
    /\ \E i \in 1..Len(splits) : Len(splits[i].page_content) = config.chunk_size

\* the chunks of the split that hold the character at 0-based offset p of
\* the document of source src
Holding(src, p) ==
    {i \in 1..Len(splits) :
        /\ splits[i].source = src
        /\ splits[i].start <= p
        /\ p < ChunkEnd(splits[i])}

\* each chunk's text is the document's text between its offsets, and the
\* chunks of a document are numbered in order
OffsetsRight ==
    \A i \in 1..Len(splits) :
        /\ splits[i].page_content
             = SubSeq(SourceText(splits[i]), splits[i].start + 1, ChunkEnd(splits[i]))
        /\ splits[i].seq
             = Cardinality({j \in 1..(i - 1) : splits[j].source = splits[i].source})

\* C4 as stated: the chunks' ranges cover every character of the document,
\* a character lying in one chunk or, in an overlap, in two consecutive
\* chunks, and each chunk's text is the document's text between its offsets.
C4_CoversEveryCharacter ==
    (did_split /\ ValidConfig) =>
        /\ OffsetsRight
        /\ \A d \in 1..Len(docs) : \A p \in 0..(Len(docs[d].page_content) - 1) :
              LET h == Holding(docs[d].source, p)
              IN  \/ Cardinality(h) = 1
                  \/ /\ Cardinality(h) = 2
                     /\ \E i \in h : i + 1 \in h

\* C4 amended: each chunk's text is the document's text between its offsets,
\* the chunks are numbered in document order, every character that is not
\* whitespace lies in at least one chunk, and the chunks that hold a given
\* character are consecutive.
C4_CoversText ==
    (did_split /\ ValidConfig) =>
        /\ OffsetsRight
        /\ \A i \in ConsecutivePairs :
              /\ splits[i].start <= splits[i + 1].start
              /\ ChunkEnd(splits[i]) <= ChunkEnd(splits[i + 1])
        /\ \A d \in 1..Len(docs) : \A p \in 0..(Len(docs[d].page_content) - 1) :
              LET h == Holding(docs[d].source, p)
              IN  /\ docs[d].page_content[p + 1] \in Letters => h # {}
                  /\ \A i \in h, j \in h, k \in 1..Len(splits) :
                        (i <= k /\ k <= j) => k \in h

\* a split that strips a whitespace character out of every chunk and puts
\* another character in more than one chunk
C4_Witness ==
    /\ did_split /\ ValidConfig
    /\ \E p \in 0..(Len(docs[1].page_content) - 1) :
          Holding(docs[1].source, p) = {}
    /\ \E p \in 0..(Len(docs[1].page_content) - 1) :
          Cardinality(Holding(docs[1].source, p)) >= 2

\* C5 as stated: the configuration is rejected, and no chunk is returned,
\* exactly when chunk_size <= 0, chunk_overlap < 0 or
\* chunk_overlap >= chunk_size.
C5_RejectsExactlyInvalid ==
    config.tried =>
        /\ ~ValidConfig => (error = "ValueError" /\ splits = <<>> /\ ~did_split)
        /\ ValidConfig => error # "ValueError"

\* C5 amended: the configuration is rejected, and no chunk is returned,
\* whenever chunk_overlap > chunk_size; a configuration with chunk_size > 0
\* and 0 <= chunk_overlap <= chunk_size is never rejected, and splitting
\* with it raises nothing.
C5_RejectsLargerOverlap ==
    config.tried =>
        /\ config.chunk_overlap > config.chunk_size
             => (error = "ValueError" /\ splits = <<>> /\ ~did_split)
        /\ (/\ config.chunk_size > 0
            /\ 0 <= config.chunk_overlap
            /\ config.chunk_overlap <= config.chunk_size)
             => error = "none"

\* a rejected configuration, and a split made with chunk_overlap = chunk_size
C5_Witness ==
    \/ /\ config.tried
       /\ config.chunk_overlap > config.chunk_size
       /\ config.chunk_size > 0
       /\ error = "ValueError"
    \/ /\ did_split
       /\ config.chunk_overlap = config.chunk_size
       /\ Len(splits) >= 2

(***************************************************************************)
(* The notebook's own configuration on documents of 1200 characters.       *)
(***************************************************************************)
MaxMarks == 17     \* how many positions of the marked character are tried

NotebookChunkSize == 500
NotebookChunkOverlap == 100
ScenarioLength == 2 * (NotebookChunkSize + NotebookChunkOverlap)

\* the position of the k-th mark
MarkAt(k) == ((k * 97) % ScenarioLength) + 1

\* a text of ScenarioLength characters, all "a" except for the character c
\* at position p
Marked(p, c) == [i \in 1..ScenarioLength |-> IF i = p THEN c ELSE "a"]

ScenarioTexts ==
    {Marked(0, "a")}
        \cup {Marked(MarkAt(k), c) : k \in 1..MaxMarks, c \in {"b", " "}}

InitScenario ==
    /\ config = NoConfig
    /\ docs \in {<<[source |-> 1, page_content |-> t]>> : t \in ScenarioTexts}
    /\ text_splitter = NoSplitter
    /\ splits = <<>>
    /\ did_split = FALSE
    /\ error = "none"
    /\ embedding_model = 1
    /\ NotIndexed
    /\ NotAsked
    /\ NotServing

NextScenario ==
    \/ \E strict \in BOOLEAN :
          NewSplitter(strict, NotebookChunkSize, NotebookChunkOverlap)
    \/ SplitDocuments

SpecScenario == InitScenario /\ [][NextScenario]_vars

\* the chunk of the split that covers the 0-based offsets [from, to)
Covers(i, from, to) ==
    /\ splits[i].start = from
    /\ ChunkEnd(splits[i]) = to
    /\ splits[i].page_content = SubSeq(docs[1].page_content, from + 1, to)

\* three chunks over [0,500), [400,900) and [800,1200), whose 100-character
\* overlap windows are the same text in both chunks
ThreeWindows ==
    /\ Len(splits) = 3
    /\ Covers(1, 0, 500) /\ Covers(2, 400, 900) /\ Covers(3, 800, 1200)
    /\ \A i \in 1..2 :
          Suffix(splits[i].page_content, NotebookChunkOverlap)
            = Prefix(splits[i + 1].page_content, NotebookChunkOverlap)

\* C2 as stated: every document of 1200 characters is split into the three
\* chunks [0,500), [400,900), [800,1200) with verbatim overlap windows.
C2_ThreeWindowsAlways ==
    did_split => ThreeWindows

\* C2 amended: a document of 1200 characters that holds no whitespace is
\* split into the three chunks [0,500), [400,900), [800,1200) with verbatim
\* overlap windows.
C2_ThreeWindowsNoWhitespace ==
    (did_split /\ \A i \in 1..Len(docs[1].page_content) :
                     docs[1].page_content[i] \in Letters)
        => ThreeWindows

\* a split document of 1200 characters without whitespace, not all alike
C2_Witness ==
    /\ did_split
    /\ Len(docs[1].page_content) = ScenarioLength
    /\ \E i \in 401..500 : docs[1].page_content[i] = "b"
    /\ \A i \in 1..Len(docs[1].page_content) : docs[1].page_content[i] \in Letters
    /\ Len(splits) = 3

(***************************************************************************)
(* The indexing cell and the retriever, on two loaded documents.           *)
(***************************************************************************)
MaxIndexedLen == 3      \* longest text of the first document indexed; the
                        \* second is shorter by one
IndexChunkSize == 1     \* chunk_size of the splitter before indexing
IndexChunkOverlap == 0  \* chunk_overlap of the splitter before indexing
MaxBuilds == 2          \* runs of the indexing cell
MaxK == 5               \* largest k asked of the index

Seeds == {1, 5}
Questions == {<<"a">>, <<"a", "b">>}
Vectors == {<<x, y>> : x \in Coords, y \in Coords}
LetterTextsUpTo(n) == UNION {[1..k -> Letters] : k \in 0..n}

\* db = FAISS.from_documents(documents = splits,
\*                           embedding = HuggingFaceEmbeddings(...))
FromDocuments(seed) ==
    /\ did_split
    /\ error = "none"
    /\ builds < MaxBuilds
    /\ builds' = builds + 1
    /\ IF from_documents_raises(splits)
       THEN /\ error' = "IndexError"
            /\ UNCHANGED db
       ELSE /\ db' = from_documents(splits, embedding_model,
                                    uuid4(seed, Len(splits)))
            /\ UNCHANGED error
    /\ UNCHANGED <<config, docs, text_splitter, splits, did_split>>
    /\ UNCHANGED <<embedding_model, retrieved, chain, requests>>
    /\ UNCHANGED <<caller_vars, web_vars>>

\* db.as_retriever() asked for the documents relevant to a query
GetRelevantDocuments(query) ==
    /\ db.ready
    /\ error = "none"
    /\ retrieved' = [query |-> query,
                     docs |-> get_relevant_documents(db, embedding_model, query),
                     done |-> TRUE]
    /\ UNCHANGED <<config, docs, text_splitter, splits, did_split, error>>
    /\ UNCHANGED <<embedding_model, db, builds, chain, requests>>
    /\ UNCHANGED <<caller_vars, web_vars>>

InitIndex ==
    /\ config = NoConfig
    /\ docs \in {<<[source |-> 1, page_content |-> t],
                   [source |-> 2, page_content |-> u]>> :
                    t \in LetterTextsUpTo(MaxIndexedLen),
                    u \in LetterTextsUpTo(MaxIndexedLen - 1)}
    /\ text_splitter = NoSplitter
    /\ splits = <<>>
    /\ did_split = FALSE
    /\ error = "none"
    /\ embedding_model \in EmbeddingModels
    /\ NotIndexed
    /\ NotAsked
    /\ NotServing

NextIndex ==
    \/ \E strict \in BOOLEAN :
          NewSplitter(strict, IndexChunkSize, IndexChunkOverlap)
    \/ SplitDocuments
    \/ \E seed \in Seeds : FromDocuments(seed)
    \/ \E query \in Questions : GetRelevantDocuments(query)

SpecIndex == InitIndex /\ [][NextIndex]_vars

(***************************************************************************)
(* Properties of the Indexer, checked under SpecIndex.                     *)
(***************************************************************************)
\* the chunk a stored document holds
Chunk(doc) ==
    [source |-> doc.source, page_content |-> doc.page_content,
     start |-> doc.start, seq |-> doc.seq]

\* a Retrieval Result: the chunks and their scores, in order
Result(hits) ==
    <<>> \o [i \in 1..Len(hits) |-> [chunk |-> Chunk(hits[i].doc),
                                     score |-> hits[i].score]]

\* the position in splits of a chunk
PositionOf(chunk) ==
    CHOOSE i \in 1..Len(splits) :
        splits[i].source = chunk.source /\ splits[i].seq = chunk.seq

\* the distance of every chunk of splits from the vector v
Distances(v) ==
    <<>> \o [p \in 1..Len(splits) |->
                fvec_L2sqr(v, Embed(embedding_model, splits[p].page_content))]

\* the positions in splits of the chunks of a Retrieval Result
Positions(res) == <<>> \o [i \in 1..Len(res) |-> PositionOf(res[i].chunk)]

\* what every answer of the index has, whatever the order among equal
\* scores: min(k, N) different chunks of splits with their distances, nearest
\* first, and no chunk left out nearer than one returned
NearestK(res, pos, dist, k) ==
    /\ Len(res) = Min(k, Len(splits))
    /\ \A i \in 1..Len(res) :
          /\ res[i].chunk = splits[pos[i]]
          /\ res[i].score = dist[pos[i]]
    /\ \A i, j \in 1..Len(res) :
          i < j => (res[i].score <= res[j].score /\ pos[i] # pos[j])
    /\ \A p \in 1..Len(splits) :
          (\A i \in 1..Len(res) : pos[i] # p)
             => \A i \in 1..Len(res) : res[i].score <= dist[p]

\* C6 as stated: query(v, k) returns min(k, N) entries by non-decreasing
\* distance, entries of equal score ordered by ascending sequence_index and
\* then ascending source_id, and no entry left out is nearer than one returned
C6_TiesBySequenceIndex ==
    db.ready =>
        \A v \in Vectors, k \in 1..MaxK :
            \A res \in {Result(similarity_search_with_score_by_vector(db, v, k))} :
                /\ NearestK(res, Positions(res), Distances(v), k)
                /\ \A i, j \in 1..Len(res) :
                      (i < j /\ res[i].score = res[j].score)
                         => \/ res[i].chunk.seq < res[j].chunk.seq
                            \/ /\ res[i].chunk.seq = res[j].chunk.seq
                               /\ res[i].chunk.source < res[j].chunk.source

\* C6 as the code has it: query(v, k) returns min(k, N) entries by
\* non-decreasing distance, entries of equal score in the order of the chunk
\* sequence the index was built from (the loader's document order, then
\* sequence_index), and an entry left out is neither nearer than a returned
\* one nor equally near and earlier in that sequence
C6_TiesByBuildOrder ==
    db.ready =>
        \A v \in Vectors, k \in 1..MaxK :
            \A res \in {Result(similarity_search_with_score_by_vector(db, v, k))},
               dist \in {Distances(v)} :
              \A pos \in {Positions(res)} :
                /\ NearestK(res, pos, dist, k)
                /\ \A i, j \in 1..Len(res) :
                      (i < j /\ res[i].score = res[j].score) => pos[i] < pos[j]
                /\ \A p \in 1..Len(splits), i \in 1..Len(res) :
                      ((\A j \in 1..Len(res) : pos[j] # p)
                            /\ dist[p] = res[i].score)
                         => pos[i] < p

\* the retriever returned DefaultK of more chunks, two of them equally near,
\* the first from the earlier document and later in its document
C6_Witness ==
    /\ retrieved.done
    /\ Len(splits) > DefaultK
    /\ Len(retrieved.docs) = DefaultK
    /\ \E i, j \in 1..Len(retrieved.docs) :
          /\ i < j
          /\ retrieved.docs[i].score = retrieved.docs[j].score
          /\ retrieved.docs[i].doc.source < retrieved.docs[j].doc.source
          /\ retrieved.docs[i].doc.seq > retrieved.docs[j].doc.seq

\* C7 as stated: an index built from an empty chunk sequence exists, returns
\* no Retrieval Result, and the failure of the run is EmptyIndex
C7_EmptyIndexFailsQuery ==
    (builds > 0 /\ splits = <<>>)
        => /\ db.ready
           /\ ~retrieved.done
           /\ error \in {"none", "EmptyIndex"}

\* C7 as the code has it: building from an empty chunk sequence raises
\* IndexError in the indexing cell and leaves no index, so the retriever is
\* never asked; every index there is holds at least one chunk
C7_EmptyBuildRaises ==
    /\ (builds > 0 /\ splits = <<>>)
          => (error = "IndexError" /\ ~db.ready /\ ~retrieved.done)
    /\ db.ready => (Len(db.index) >= 1 /\ Len(db.index) = Len(splits))
    /\ retrieved.done => db.ready

\* the indexing cell has run on an empty chunk sequence
C7_Witness ==
    /\ did_split
    /\ splits = <<>>
    /\ builds = 1
    /\ error = "IndexError"

\* C8: an index rebuilt from the same chunks with the same embedding model
\* returns, for every query vector and every k, the same chunks in the same
\* order with the same scores as the index it replaces
C8_RebuildSameResults ==
    [][(db.ready /\ db'.ready /\ builds' # builds)
          => \A old \in {db}, new \in {db'}, v \in Vectors, k \in 1..MaxK :
                \A before \in {similarity_search_with_score_by_vector(old, v, k)},
                   after \in {similarity_search_with_score_by_vector(new, v, k)} :
                      Result(after) = Result(before)]_vars

\* the index has been rebuilt, with docstore ids in another order than the
\* chunks, and two chunks have the same vector
C8_Witness ==
    /\ builds = 2
    /\ db.ready
    /\ \E i, j \in 1..Len(splits) :
          /\ i < j
          /\ db.index[i] = db.index[j]
          /\ db.index_to_docstore_id[i] > db.index_to_docstore_id[j]

(***************************************************************************)
(* The conversational retrieval chain over a built index: chain.invoke     *)
(* called from several threads.                                            *)
(***************************************************************************)
ChainTexts ==
    {<<<<"a", "b", "a">>, <<"b">>>>, <<<<"a">>, <<"a", "a">>>>}
Answers == {<<"a">>, <<"b">>}
\* what the question generator may write: the question again, or another
Reformulations == Questions \cup {<<"b">>}
Histories == {<<>>, <<[question |-> <<"a">>, answer |-> <<"b">>]>>}

\* chain = ConversationalRetrievalChain.from_llm(llm, db.as_retriever(),
\*                                               return_source_documents=True)
FromLlm ==
    /\ db.ready
    /\ error = "none"
    /\ ~chain.ready
    /\ chain' = [retriever |-> db, ready |-> TRUE]
    /\ UNCHANGED <<config, docs, text_splitter, splits, did_split, error>>
    /\ UNCHANGED <<embedding_model, db, builds, retrieved, requests>>
    /\ UNCHANGED <<caller_vars, web_vars>>

\* chain.invoke({"question": question, "chat_history": history})
Invoke(r, question, history) ==
    /\ chain.ready
    /\ requests[r].pc = "idle"
    /\ requests' = [requests EXCEPT ![r] =
                      [Idle EXCEPT !.pc = "condense", !.question = question,
                                   !.chat_history = history]]
    /\ UNCHANGED <<config, docs, text_splitter, splits, did_split, error>>
    /\ UNCHANGED <<embedding_model, db, builds, retrieved, chain>>
    /\ UNCHANGED <<caller_vars, web_vars>>

Human == <<"H", "u", "m", "a", "n", ":", " ">>
Assistant == <<"A", "s", "s", "i", "s", "t", "a", "n", "t", ":", " ">>

\* _get_chat_history that starts its buffer with a header line
RECURSIVE get_chat_history_WithHeader(_)
get_chat_history_WithHeader(history) ==
    IF history = <<>> THEN <<"\n">>
    ELSE <<"\n">> \o Human \o Head(history).question
            \o <<"\n">> \o Assistant \o Head(history).answer
            \o get_chat_history_WithHeader(Tail(history))

\* _get_chat_history: buffer = ""; for every (human, ai) turn
\* buffer += "\n" + "\n".join(["Human: " + human, "Assistant: " + ai])
RECURSIVE get_chat_history(_)
get_chat_history(history) ==
    IF history = <<>> THEN <<>>
    ELSE <<"\n">> \o Human \o Head(history).question
            \o <<"\n">> \o Assistant \o Head(history).answer
            \o get_chat_history(Tail(history))

\* a call that an exception is ending: what it was given, the calls it made
\* and the documents it had found, none of which the exception carries
Raising(req, step) ==
    [Idle EXCEPT !.pc = "raised", !.question = req.question,
                 !.chat_history = req.chat_history, !.docs = req.docs,
                 !.calls = Append(req.calls, step), !.raised = step]

\* _call: chat_history_str = get_chat_history(inputs["chat_history"]); if it
\* is not empty the question generator (an LLM call) writes the new question,
\* otherwise the question is taken as it is
Condense(r) ==
    /\ requests[r].pc = "condense"
    /\ IF get_chat_history(requests[r].chat_history) # <<>>
       THEN \E generated \in Reformulations :
               requests' = [requests EXCEPT
                               ![r].pc = "embed",
                               ![r].new_question = generated,
                               ![r].calls = Append(@, "question_generator")]
       ELSE requests' = [requests EXCEPT
                            ![r].pc = "embed",
                            ![r].new_question = requests[r].question]
    /\ UNCHANGED <<config, docs, text_splitter, splits, did_split, error>>
    /\ UNCHANGED <<embedding_model, db, builds, retrieved, chain>>
    /\ UNCHANGED <<caller_vars, web_vars>>

\* _call: the LLM call of the question generator raises
CondenseRaises(r) ==
    /\ requests[r].pc = "condense"
    /\ get_chat_history(requests[r].chat_history) # <<>>
    /\ requests' = [requests EXCEPT
                      ![r] = Raising(requests[r], "question_generator")]
    /\ UNCHANGED <<config, docs, text_splitter, splits, did_split, error>>
    /\ UNCHANGED <<embedding_model, db, builds, retrieved, chain>>
    /\ UNCHANGED <<caller_vars, web_vars>>

\* _get_docs called with the question as asked, not the new question
EmbedQuery_AsAsked(r) ==
    /\ requests[r].pc = "embed"
    /\ requests' = [requests EXCEPT
                      ![r].pc = "search",
                      ![r].embedding =
                          Embed(embedding_model, requests[r].question),
                      ![r].calls = Append(@, "embed_query")]
    /\ UNCHANGED <<config, docs, text_splitter, splits, did_split, error>>
    /\ UNCHANGED <<embedding_model, db, builds, retrieved, chain>>
    /\ UNCHANGED <<caller_vars, web_vars>>

\* similarity_search_with_score: embedding = self._embed_query(query)
EmbedQuery(r) ==
    /\ requests[r].pc = "embed"
    /\ requests' = [requests EXCEPT
                      ![r].pc = "search",
                      ![r].embedding =
                          Embed(embedding_model, requests[r].new_question),
                      ![r].calls = Append(@, "embed_query")]
    /\ UNCHANGED <<config, docs, text_splitter, splits, did_split, error>>
    /\ UNCHANGED <<embedding_model, db, builds, retrieved, chain>>
    /\ UNCHANGED <<caller_vars, web_vars>>

\* similarity_search_with_score: self._embed_query(query) raises
EmbedQueryRaises(r) ==
    /\ requests[r].pc = "embed"
    /\ requests' = [requests EXCEPT
                      ![r] = Raising(requests[r], "embed_query")]
    /\ UNCHANGED <<config, docs, text_splitter, splits, did_split, error>>
    /\ UNCHANGED <<embedding_model, db, builds, retrieved, chain>>
    /\ UNCHANGED <<caller_vars, web_vars>>

\* the documents of a search, without their scores
DocsOf(hits) == [i \in 1..Len(hits) |-> hits[i].doc]

\* Search that also stores the query in the vector store it searches
Search_KeepsQuery(r) ==
    /\ requests[r].pc = "search"
    /\ requests' = [requests EXCEPT
                      ![r].pc = "combine",
                      ![r].docs = DocsOf(similarity_search_with_score_by_vector(
                                      chain.retriever, requests[r].embedding,
                                      DefaultK)),
                      ![r].calls = Append(@, "search")]
    /\ chain' = [chain EXCEPT
                    !.retriever.index = Append(@, requests[r].embedding),
                    !.retriever.index_to_docstore_id = Append(@, 0)]
    /\ UNCHANGED <<config, docs, text_splitter, splits, did_split, error>>
    /\ UNCHANGED <<embedding_model, db, builds, retrieved>>
    /\ UNCHANGED <<caller_vars, web_vars>>

\* similarity_search: the retriever's vector store searched with the
\* embedding, the documents returned
Search(r) ==
    /\ requests[r].pc = "search"
    /\ requests' = [requests EXCEPT
                      ![r].pc = "combine",
                      ![r].docs = DocsOf(similarity_search_with_score_by_vector(
                                      chain.retriever, requests[r].embedding,
                                      DefaultK)),
                      ![r].calls = Append(@, "search")]
    /\ UNCHANGED <<config, docs, text_splitter, splits, did_split, error>>
    /\ UNCHANGED <<embedding_model, db, builds, retrieved, chain>>
    /\ UNCHANGED <<caller_vars, web_vars>>

\* combine_docs_chain.run: the LLM call that writes the answer
Combine(r) ==
    /\ requests[r].pc = "combine"
    /\ \E answer \in Answers :
          requests' = [requests EXCEPT
                          ![r].pc = "done", ![r].answer = answer,
                          ![r].calls = Append(@, "combine_docs")]
    /\ UNCHANGED <<config, docs, text_splitter, splits, did_split, error>>
    /\ UNCHANGED <<embedding_model, db, builds, retrieved, chain>>
    /\ UNCHANGED <<caller_vars, web_vars>>

\* combine_docs_chain.run: the LLM call raises; Chain.invoke re-raises every
\* exception
CombineRaises(r) ==
    /\ requests[r].pc = "combine"
    /\ requests' = [requests EXCEPT
                      ![r] = Raising(requests[r], "combine_docs")]
    /\ UNCHANGED <<config, docs, text_splitter, splits, did_split, error>>
    /\ UNCHANGED <<embedding_model, db, builds, retrieved, chain>>
    /\ UNCHANGED <<caller_vars, web_vars>>

\* chain.invoke returns {"answer": .., "source_documents": ..} to a thread
Return(r) ==
    /\ requests[r].pc = "done"
    /\ requests' = [requests EXCEPT ![r] = Idle]
    /\ UNCHANGED <<config, docs, text_splitter, splits, did_split, error>>
    /\ UNCHANGED <<embedding_model, db, builds, retrieved, chain>>
    /\ UNCHANGED <<caller_vars, web_vars>>

\* the notebook after the indexing cell
InitChain ==
    /\ config = [chunk_size |-> IndexChunkSize,
                 chunk_overlap |-> IndexChunkOverlap, tried |-> TRUE]
    /\ docs \in {<<[source |-> 1, page_content |-> t[1]],
                   [source |-> 2, page_content |-> t[2]]>> : t \in ChainTexts}
    /\ text_splitter = [chunk_size |-> IndexChunkSize,
                        chunk_overlap |-> IndexChunkOverlap, ready |-> TRUE]
    /\ splits = split_documents(text_splitter, docs)
    /\ did_split = TRUE
    /\ error = "none"
    /\ embedding_model \in EmbeddingModels
    /\ db = from_documents(splits, embedding_model, uuid4(5, Len(splits)))
    /\ builds = 1
    /\ retrieved = NoneFound
    /\ chain = NoChain
    /\ requests = [r \in Threads |-> Idle]
    /\ NotAsked
    /\ NotServing

NextChain ==
    \/ FromLlm
    \/ \E r \in Threads, question \in Questions, history \in Histories :
          Invoke(r, question, history)
    \/ \E r \in Threads : Condense(r)
    \/ \E r \in Threads : EmbedQuery(r)
    \/ \E r \in Threads : Search(r)
    \/ \E r \in Threads : Combine(r)
    \/ \E r \in Threads : Return(r)

SpecChain == InitChain /\ [][NextChain]_vars

(***************************************************************************)
(* Properties of the chain, checked under SpecChain.                       *)
(***************************************************************************)
\* the (Chunk, Embedding Vector) entries of a vector store
Entries(store) ==
    {<<IF store.index_to_docstore_id[i] \in DOMAIN store.docstore
       THEN Chunk(store.docstore[store.index_to_docstore_id[i]])
       ELSE <<>>,
       store.index[i]>> : i \in 1..Len(store.index)}

\* C10: once the index is built, no step of any request (reformulation, query
\* embedding, index search, generation, return) adds, removes or changes an
\* entry of the index, neither of db nor of the store the chain searches
C10_IndexReadOnly ==
    [][db.ready
          => /\ db'.ready
             /\ Entries(db') = Entries(db)
             /\ Len(db'.index) = Len(db.index)
             /\ chain.ready
                   => /\ chain'.ready
                      /\ Entries(chain'.retriever) = Entries(chain.retriever)
                      /\ Len(chain'.retriever.index)
                             = Len(chain.retriever.index)]_vars

\* two requests in flight that have both searched the index, one of them
\* with a chat history
C10_Witness ==
    /\ chain.ready
    /\ requests[1].pc = "done"
    /\ requests[1].docs # <<>>
    /\ requests[2].pc = "combine"
    /\ requests[2].chat_history # <<>>
    /\ requests[2].docs # <<>>
    /\ Entries(chain.retriever) = Entries(db)


\* ---------------------------------------------------------------------------
\* The order of the calls of one invocation

IsPrefix(s, t) == Len(s) <= Len(t) /\ \A i \in 1..Len(s) : s[i] = t[i]

WithHistoryCalls ==
    <<"question_generator", "embed_query", "search", "combine_docs">>
WithoutHistoryCalls == <<"embed_query", "search", "combine_docs">>

\* C11: the question generator is called exactly when the chat history given
\* to the invocation is not empty, and then before the embedding of the query
\* and the search; with an empty history the question as given is embedded
\* and the only LLM call is the one that writes the answer.
C11_ReformulateIffHistory ==
    \A r \in Threads :
        LET req == requests[r] IN
            /\ req.chat_history # <<>> =>
                  /\ IsPrefix(req.calls, WithHistoryCalls)
                  /\ req.pc \in {"embed", "search", "combine", "done"} =>
                        req.calls[1] = "question_generator"
                  /\ req.pc = "done" => req.calls = WithHistoryCalls
            /\ req.chat_history = <<>> =>
                  /\ IsPrefix(req.calls, WithoutHistoryCalls)
                  /\ req.pc \in {"embed", "search", "combine", "done"} =>
                        req.new_question = req.question
                  /\ req.pc \in {"search", "combine", "done"} =>
                        req.embedding = Embed(embedding_model, req.question)
                  /\ req.pc = "done" => req.calls = WithoutHistoryCalls

C11_Witness ==
    \E r, t \in Threads :
        /\ requests[r].pc = "done"
        /\ requests[r].chat_history # <<>>
        /\ requests[r].calls = WithHistoryCalls
        /\ requests[r].new_question # requests[r].question
        /\ requests[t].pc = "done"
        /\ requests[t].chat_history = <<>>
        /\ requests[t].calls = WithoutHistoryCalls

\* ---------------------------------------------------------------------------
\* The notebook's session: one caller, its chat_history and its llm_output

Caller == 1

\* the documents of a session: those of ChainTexts, and two with more chunks
\* than one search returns
SessionTexts == ChainTexts \cup {<<<<"b", "b", "b">>, <<"b", "a">>>>}

\* a cell runs llm_output = chain.invoke({"question": user_query,
\* "chat_history": chat_history}) or the same with "chat_history": []
Ask(question, history) == Invoke(Caller, question, history)

\* Chain.invoke returns {**inputs, **outputs}; the cell assigns it
Returned(req) ==
    [question |-> req.question, chat_history |-> req.chat_history,
     answer |-> req.answer, source_documents |-> req.docs, done |-> TRUE]

\* a chain with a memory: the turn is saved into the caller's history
CellReturns_Remembers ==
    /\ requests[Caller].pc = "done"
    /\ llm_output' = Returned(requests[Caller])
    /\ chat_history' = Append(requests[Caller].chat_history,
                              [question |-> requests[Caller].question,
                               answer |-> requests[Caller].answer])
    /\ requests' = [requests EXCEPT ![Caller] = Idle]
    /\ UNCHANGED <<config, docs, text_splitter, splits, did_split, error>>
    /\ UNCHANGED <<embedding_model, db, builds, retrieved, chain>>
    /\ UNCHANGED <<retrieval_only, web_vars>>

\* llm_output = chain.invoke(..) has returned; memory is None, nothing is saved
CellReturns ==
    /\ requests[Caller].pc = "done"
    /\ llm_output' = Returned(requests[Caller])
    /\ requests' = [requests EXCEPT ![Caller] = Idle]
    /\ UNCHANGED <<config, docs, text_splitter, splits, did_split, error>>
    /\ UNCHANGED <<embedding_model, db, builds, retrieved, chain>>
    /\ UNCHANGED <<chat_history, retrieval_only, web_vars>>

\* chain.invoke(..) has raised: the cell stops, llm_output is not assigned
CellRaises ==
    /\ requests[Caller].pc = "raised"
    /\ requests' = [requests EXCEPT ![Caller] = Idle]
    /\ UNCHANGED <<config, docs, text_splitter, splits, did_split, error>>
    /\ UNCHANGED <<embedding_model, db, builds, retrieved, chain>>
    /\ UNCHANGED <<caller_vars, web_vars>>

\* chat_history = [(user_query, llm_output["answer"])]
SetChatHistory ==
    /\ llm_output.done
    /\ requests[Caller].pc = "idle"
    /\ chat_history' = <<[question |-> llm_output.question,
                          answer |-> llm_output.answer]>>
    /\ UNCHANGED <<config, docs, text_splitter, splits, did_split, error>>
    /\ UNCHANGED <<index_vars, llm_output, retrieval_only, web_vars>>

\* the notebook after the indexing cell; whether the caller would rather have
\* the documents alone than an error is fixed for the session
InitSession ==
    /\ config = [chunk_size |-> IndexChunkSize,
                 chunk_overlap |-> IndexChunkOverlap, tried |-> TRUE]
    /\ docs \in {<<[source |-> 1, page_content |-> t[1]],
                   [source |-> 2, page_content |-> t[2]]>> : t \in SessionTexts}
    /\ text_splitter = [chunk_size |-> IndexChunkSize,
                        chunk_overlap |-> IndexChunkOverlap, ready |-> TRUE]
    /\ splits = split_documents(text_splitter, docs)
    /\ did_split = TRUE
    /\ error = "none"
    /\ embedding_model \in EmbeddingModels
    /\ db = from_documents(splits, embedding_model, uuid4(5, Len(splits)))
    /\ builds = 1
    /\ retrieved = NoneFound
    /\ chain = NoChain
    /\ requests = [r \in Threads |-> Idle]
    /\ chat_history = <<>>
    /\ llm_output = NoOutput
    /\ retrieval_only \in BOOLEAN
    /\ NotServing

NextSession ==
    \/ FromLlm
    \/ \E question \in Questions, history \in {chat_history, <<>>} :
          Ask(question, history)
    \/ Condense(Caller)
    \/ CondenseRaises(Caller)
    \/ EmbedQuery(Caller)
    \/ EmbedQueryRaises(Caller)
    \/ Search(Caller)
    \/ Combine(Caller)
    \/ CombineRaises(Caller)
    \/ CellReturns
    \/ CellRaises
    \/ SetChatHistory

SpecSession == InitSession /\ [][NextSession]_vars

\* what an invocation finds for a question: the DefaultK nearest chunks of
\* the chain's index
Found(question) ==
    DocsOf(similarity_search_with_score_by_vector(
               chain.retriever, Embed(embedding_model, question), DefaultK))

\* every step of C12: the history given to a call stays as given, the chain
\* stays as created, and the caller's history changes only by its own cell
C12_Step ==
    /\ chain.ready => chain' = chain
    /\ \A r \in Threads :
          requests[r].pc # "idle" /\ requests'[r].pc # "idle" =>
              /\ requests'[r].chat_history = requests[r].chat_history
              /\ requests'[r].question = requests[r].question
    /\ requests[Caller].pc # "idle" => chat_history' = chat_history
    /\ chat_history' # chat_history =>
          /\ requests' = requests
          /\ chat_history' = <<[question |-> llm_output.question,
                                answer |-> llm_output.answer]>>
    /\ llm_output' # llm_output =>
          /\ llm_output'.chat_history = requests[Caller].chat_history
          /\ llm_output'.source_documents = requests[Caller].docs

\* C12: an invocation neither appends to nor changes the chat history it is
\* given and the chain keeps none of its own: what is found depends only on
\* the question, the history passed and the index (with an empty history, on
\* the question and the index alone, whatever was asked before); the history
\* changes only when the caller's own cell sets it.
C12_HistoryOnlyByCaller ==
    /\ [](\A r \in Threads :
             requests[r].pc \in {"combine", "done"} =>
                 /\ requests[r].docs = Found(requests[r].new_question)
                 /\ requests[r].chat_history = <<>> =>
                       requests[r].docs = Found(requests[r].question))
    /\ [][C12_Step]_vars

C12_Witness ==
    /\ llm_output.done
    /\ llm_output.chat_history # <<>>
    /\ chat_history = llm_output.chat_history
    /\ requests[Caller].pc = "done"
    /\ requests[Caller].chat_history = <<>>
    /\ requests[Caller].question # llm_output.question

\* the answer of a result that carries documents only
NoAnswer == <<>>

\* the cell's call is ending with the exception that step raised
Surfaces(step) ==
    /\ requests[Caller].pc = "raised"
    /\ requests[Caller].raised = step
    /\ requests'[Caller].pc = "idle"

\* C13: when the answer call fails after the search has succeeded, a caller
\* that chose the documents-only mode receives the documents found with a
\* no-answer marker, and any other caller receives the error and no partial
\* result; a failure of the retrieval is an error in both modes, and no
\* answer call is made after it.
C13_DegradedModeReturnsRetrieval ==
    [][/\ Surfaces("combine_docs") =>
             IF retrieval_only
             THEN llm_output' = [Returned(requests[Caller])
                                    EXCEPT !.answer = NoAnswer]
             ELSE llm_output' = llm_output
       /\ Surfaces("embed_query") =>
             /\ llm_output' = llm_output
             /\ \A i \in 1..Len(requests[Caller].calls) :
                   requests[Caller].calls[i] # "combine_docs"]_vars

C13_Witness ==
    /\ retrieval_only
    /\ requests[Caller].pc = "raised"
    /\ requests[Caller].raised = "combine_docs"
    /\ requests[Caller].docs # <<>>
    /\ llm_output = NoOutput

\* ---------------------------------------------------------------------------
\* The first question of the notebook: which chunk comes first

\* the words the question and the chunk with the answer share
Phrase == <<"a">>

Contains(text, phrase) == \E i \in 1..Len(text) : MatchesAt(text, i, phrase)

SquaredDistance(x, y) ==
    (x[1] - y[1]) * (x[1] - y[1]) + (x[2] - y[2]) * (x[2] - y[2])

\* a call that was given no history and a question with the phrase, against
\* an index that holds a chunk with the phrase, and has its documents
AsksForPhrase(req) ==
    /\ req.pc \in {"combine", "done"}
    /\ req.chat_history = <<>>
    /\ Contains(req.question, Phrase)
    /\ \E i \in 1..Len(splits) : Contains(splits[i].page_content, Phrase)

Range(f) == {f[i] : i \in DOMAIN f}

\* the cell before returned the answer to a question asked with history, and
\* the same question asked without history has its answer now
AskedBothWays ==
    /\ llm_output.done
    /\ llm_output.chat_history # <<>>
    /\ requests[Caller].pc = "done"
    /\ requests[Caller].chat_history = <<>>
    /\ requests[Caller].question = llm_output.question

MaxPosts == 2   \* POST requests in one run

\* the books of ./data as the module is loaded: objects with an id
InitialBooks == {<<>>, <<Object(Num("1"), "a")>>}

\* request bodies: a book, an object with no id, null, and text that is not
\* JSON
Bodies ==
    {Json(Object(Num("1"), "x")), Json(Object(Undefined, "z")), Json(Null),
     Malformed}

\* the [id] segment of the URL, a string
Params == {"1", "01"}

\* a request is taken by the first handler that is free
Takes(h) ==
    /\ handlers[h].pc = "free"
    /\ \A g \in HandlerIds : handlers[g].pc = "free" => h <= g

\* Array.prototype.push that returns the length before the push
push_ReturnsOldLength(list, item) ==
    [list |-> Append(list, item), length |-> Len(list)]

\* Array.prototype.push: appends, returns the new length
push(list, item) == [list |-> Append(list, item), length |-> Len(list) + 1]

\* ToNumber of a string of digits, as a decimal without leading zeros
ToNumber(str) == IF str = "01" THEN "1" ELSE str

\* book.id == params.id, params.id being a string: a number is compared with
\* ToNumber of the string, a string with the string, undefined equals neither
LooseEquals(id, param) ==
    \/ id.t = "number" /\ id.v = ToNumber(param)
    \/ id.t = "string" /\ id.v = param

\* books.find((book) => book.id == params.id): the first book for which the
\* callback is true, undefined if there is none; the callback throws a
\* TypeError when it reads the id of null
RECURSIVE find(_, _, _)
find(list, param, i) ==
    IF i > Len(list) THEN [threw |-> FALSE, found |-> <<>>]
    ELSE IF list[i].kind = "null" THEN [threw |-> TRUE, found |-> <<>>]
    ELSE IF LooseEquals(list[i].id, param)
         THEN [threw |-> FALSE, found |-> <<list[i]>>]
         ELSE find(list, param, i + 1)

\* a POST handler that pushes what the request holds before it awaits it
PostArrives_PushesFirst(h, body) ==
    /\ Takes(h)
    /\ arrivals < MaxPosts
    /\ arrivals' = arrivals + 1
    /\ books' = IF body.json THEN Append(books, body.value) ELSE books
    /\ handlers' = [handlers EXCEPT ![h] =
                       [Free EXCEPT !.route = "POST", !.pc = "reading",
                                    !.body = body, !.ticket = arrivals + 1]]
    /\ UNCHANGED <<books0, applied, home>>
    /\ UNCHANGED <<config, docs, text_splitter, splits, did_split, error>>
    /\ UNCHANGED <<index_vars, caller_vars>>

\* POST /api/status arrives: the handler runs up to await request.json()
PostArrives(h, body) ==
    /\ Takes(h)
    /\ arrivals < MaxPosts
    /\ arrivals' = arrivals + 1
    /\ handlers' = [handlers EXCEPT ![h] =
                       [Free EXCEPT !.route = "POST", !.pc = "reading",
                                    !.body = body, !.ticket = arrivals + 1]]
    /\ UNCHANGED <<books, books0, applied, home>>
    /\ UNCHANGED <<config, docs, text_splitter, splits, did_split, error>>
    /\ UNCHANGED <<index_vars, caller_vars>>

\* a POST handler that checks the body: only an object with an id is pushed
PostReads_Validates(h) ==
    /\ handlers[h].pc = "reading"
    /\ IF /\ handlers[h].body.json
          /\ handlers[h].body.value.kind = "object"
          /\ handlers[h].body.value.id # Undefined
       THEN \E pushed \in {push(books, handlers[h].body.value)} :
               /\ books' = pushed.list
               /\ applied' = Append(applied,
                                 [ticket |-> handlers[h].ticket,
                                  body |-> handlers[h].body.value,
                                  updatedBook |-> pushed.length])
               /\ handlers' = [handlers EXCEPT
                                  ![h].pc = "responded",
                                  ![h].response =
                                      [NoResponse EXCEPT
                                          !.kind = "json",
                                          !.updatedBook = pushed.length,
                                          !.status = "success"]]
       ELSE /\ handlers' = [handlers EXCEPT
                               ![h].pc = "responded",
                               ![h].response = InternalServerError]
            /\ UNCHANGED <<books, applied>>
    /\ UNCHANGED <<books0, arrivals, home>>
    /\ UNCHANGED <<config, docs, text_splitter, splits, did_split, error>>
    /\ UNCHANGED <<index_vars, caller_vars>>

\* the body has been read: const req = await request.json() (which rejects
\* for text that is not JSON, and the handler throws); then, with no await
\* between them, const updatedBook = books.push(req) and
\* return NextResponse.json({updatedBook, status: "success"})
PostReads(h) ==
    /\ handlers[h].pc = "reading"
    /\ IF handlers[h].body.json
       THEN \E pushed \in {push(books, handlers[h].body.value)} :
               /\ books' = pushed.list
               /\ applied' = Append(applied,
                                 [ticket |-> handlers[h].ticket,
                                  body |-> handlers[h].body.value,
                                  updatedBook |-> pushed.length])
               /\ handlers' = [handlers EXCEPT
                                  ![h].pc = "responded",
                                  ![h].response =
                                      [NoResponse EXCEPT
                                          !.kind = "json",
                                          !.updatedBook = pushed.length,
                                          !.status = "success"]]
       ELSE /\ handlers' = [handlers EXCEPT
                               ![h].pc = "responded",
                               ![h].response = InternalServerError]
            /\ UNCHANGED <<books, applied>>
    /\ UNCHANGED <<books0, arrivals, home>>
    /\ UNCHANGED <<config, docs, text_splitter, splits, did_split, error>>
    /\ UNCHANGED <<index_vars, caller_vars>>

\* GET /api/status:
\* return NextResponse.json({message: "success", data: books, status: "ok"})
GetBooks(h) ==
    /\ Takes(h)
    /\ handlers' = [handlers EXCEPT ![h] =
                       [Free EXCEPT !.route = "GET", !.pc = "responded",
                                    !.response =
                                        [NoResponse EXCEPT
                                            !.kind = "json",
                                            !.message = "success",
                                            !.data = books,
                                            !.status = "ok"]]]
    /\ UNCHANGED <<books, books0, applied, arrivals, home>>
    /\ UNCHANGED <<config, docs, text_splitter, splits, did_split, error>>
    /\ UNCHANGED <<index_vars, caller_vars>>

\* GET of one book: const bookId = books.find(..);
\* return NextResponse.json({bookId}), where JSON leaves out an undefined
\* bookId; a callback that throws ends the handler with a 500
GetBook(h, param) ==
    /\ Takes(h)
    /\ \E bookId \in {find(books, param, 1)} :
          handlers' = [handlers EXCEPT ![h] =
                          [Free EXCEPT !.route = "GET id", !.pc = "responded",
                                       !.id = param,
                                       !.response =
                                           IF bookId.threw
                                           THEN InternalServerError
                                           ELSE [NoResponse EXCEPT
                                                    !.kind = "json",
                                                    !.bookId = bookId.found]]]
    /\ UNCHANGED <<books, books0, applied, arrivals, home>>
    /\ UNCHANGED <<config, docs, text_splitter, splits, did_split, error>>
    /\ UNCHANGED <<index_vars, caller_vars>>

\* the response has been sent
Sent(h) ==
    /\ handlers[h].pc = "responded"
    /\ handlers' = [handlers EXCEPT ![h] = Free]
    /\ UNCHANGED <<books, books0, applied, arrivals, home>>
    /\ UNCHANGED <<config, docs, text_splitter, splits, did_split, error>>
    /\ UNCHANGED <<index_vars, caller_vars>>

\* the server after it has loaded the modules, before any request
InitBooks ==
    /\ config = NoConfig
    /\ docs = <<>>
    /\ text_splitter = NoSplitter
    /\ splits = <<>>
    /\ did_split = FALSE
    /\ error = "none"
    /\ embedding_model = 1
    /\ NotIndexed
    /\ NotAsked
    /\ books0 \in InitialBooks
    /\ books = books0
    /\ handlers = [h \in HandlerIds |-> Free]
    /\ applied = <<>>
    /\ arrivals = 0
    /\ home = [h \in HandlerIds |-> NotRendering]

NextBooks ==
    \/ \E h \in HandlerIds, body \in Bodies : PostArrives(h, body)
    \/ \E h \in HandlerIds : PostReads(h)
    \/ \E h \in HandlerIds : GetBooks(h)
    \/ \E h \in HandlerIds, param \in Params : GetBook(h, param)
    \/ \E h \in HandlerIds : Sent(h)

SpecBooks == InitBooks /\ [][NextBooks]_vars

\* the bodies pushed so far, in the order of the pushes
AppliedBodies == <<>> \o [i \in 1..Len(applied) |-> applied[i].body]

\* handler h has read a body that is JSON in this step
ReadsJson(h) ==
    /\ handlers[h].pc = "reading"
    /\ handlers[h].body.json
    /\ handlers'[h].pc = "responded"

C16_Step ==
    \A h \in HandlerIds :
        /\ ReadsJson(h) =>
              /\ books' = Append(books, handlers[h].body.value)
              /\ handlers'[h].response.kind = "json"
        /\ (handlers[h].pc = "free" /\ handlers'[h].route = "GET") =>
              handlers'[h].response.data = books0 \o AppliedBodies

\* C16: a POST appends its JSON body to the end of books whatever the body
\* is (no id, an id already there, null) and never answers with an error;
\* books is always the initial books followed by every posted body, once
\* each, in the order of the pushes, and that is what a GET of the list
\* returns.
C16_AppendsWhatever ==
    /\ [](/\ books = books0 \o AppliedBodies
          /\ \A i, j \in 1..Len(applied) :
                i # j => applied[i].ticket # applied[j].ticket
          /\ \A h \in HandlerIds :
                (handlers[h].route = "POST" /\ handlers[h].pc = "responded"
                        /\ handlers[h].body.json)
                   => \E i \in 1..Len(applied) :
                         /\ applied[i].ticket = handlers[h].ticket
                         /\ applied[i].body = handlers[h].body.value)
    /\ [][C16_Step]_vars

\* null and a second book with the id of the first have been posted, and a
\* GET has the list
C16_Witness ==
    /\ Len(books0) = 1
    /\ Len(applied) = 2
    /\ \E i \in 1..2 : applied[i].body = Null
    /\ \E i \in 1..2 : applied[i].body.id = books0[1].id
    /\ \E h \in HandlerIds :
          /\ handlers[h].route = "GET"
          /\ handlers[h].pc = "responded"
          /\ handlers[h].response.data = books
          /\ Len(books) = 3

\* handler h holds the response to a POST whose body was JSON
Posted(h) ==
    /\ handlers[h].route = "POST"
    /\ handlers[h].pc = "responded"
    /\ handlers[h].body.json

\* C17: updatedBook in the response of a POST is the number of books after
\* the append, the length before it plus one, not the book posted, and the
\* status is "success" for every body that is JSON.
C17_UpdatedBookIsLength ==
    /\ [](\A h \in HandlerIds :
             Posted(h) =>
                 /\ handlers[h].response.kind = "json"
                 /\ handlers[h].response.status = "success"
                 /\ handlers[h].response.updatedBook
                       \in (Len(books0) + 1)..Len(books)
                 /\ books[handlers[h].response.updatedBook]
                       = handlers[h].body.value
                 /\ \E i \in 1..Len(applied) :
                       /\ applied[i].ticket = handlers[h].ticket
                       /\ handlers[h].response.updatedBook = Len(books0) + i)
    /\ [][\A h \in HandlerIds :
             ReadsJson(h) =>
                 /\ handlers'[h].response.updatedBook = Len(books) + 1
                 /\ handlers'[h].response.updatedBook = Len(books')
                 /\ handlers'[h].response.status = "success"]_vars

\* null was posted third, and the response says 3
C17_Witness ==
    \E h \in HandlerIds :
        /\ Posted(h)
        /\ handlers[h].body.value = Null
        /\ handlers[h].response.updatedBook = 3
        /\ Len(books) = 3

\* the places of the books whose id equals the id asked for
Matches(param) == {i \in 1..Len(books) : LooseEquals(books[i].id, param)}

\* handler h answers a GET of one book in this step
GetsBook(h) == handlers[h].pc = "free" /\ handlers'[h].route = "GET id"

\* C18: a GET of a book by id leaves books as it is and answers with the
\* earliest book whose id equals the id asked for, whatever was posted
\* later; when no book has the id it answers normally, with an object that
\* has no bookId, and not with an error.
C18_EarliestOrNothing ==
    [][\A h \in HandlerIds :
          GetsBook(h) =>
              /\ books' = books
              /\ handlers'[h].response.kind = "json"
              /\ \A found \in {Matches(handlers'[h].id)} :
                    handlers'[h].response.bookId =
                        IF found = {} THEN <<>>
                        ELSE <<books[CHOOSE i \in found :
                                        \A j \in found : i <= j]>>]_vars

\* null is in the list and a GET of a book has ended in an error
C18_Witness ==
    \E h \in HandlerIds :
        /\ handlers[h].route = "GET id"
        /\ handlers[h].pc = "responded"
        /\ handlers[h].response.kind = "error"
        /\ \E i \in 1..Len(books) : books[i] = Null

\* handler h holds the response to a GET of the list
Listed(h) == handlers[h].route = "GET" /\ handlers[h].pc = "responded"

\* C19: with several POST and GET requests in flight, the handlers
\* interleaving at the await of the body only, no append is lost or made
\* twice: books has grown by one for every POST whose body was read, the
\* bodies stand in the order in which the reads completed, every POST got
\* another updatedBook, and what a GET returned is a prefix of books from
\* then on.
C19_NoLostAppend ==
    /\ [](/\ Len(books) = Len(books0) + Len(applied)
          /\ books = books0 \o AppliedBodies
          /\ \A i, j \in 1..Len(applied) :
                i # j => /\ applied[i].ticket # applied[j].ticket
                         /\ applied[i].updatedBook # applied[j].updatedBook
          /\ \A h \in HandlerIds :
                /\ Posted(h) =>
                      \E i \in 1..Len(applied) :
                          /\ applied[i].ticket = handlers[h].ticket
                          /\ applied[i].updatedBook
                                = handlers[h].response.updatedBook
                /\ handlers[h].pc = "reading" =>
                      \A i \in 1..Len(applied) :
                          applied[i].ticket # handlers[h].ticket
                /\ Listed(h) => IsPrefix(handlers[h].response.data, books))
    /\ [][IsPrefix(books, books')]_vars

\* two POSTs were in flight at once and the second to arrive was read first
C19_Witness ==
    /\ Len(applied) = 2
    /\ applied[1].ticket = 2
    /\ applied[2].ticket = 1
    /\ \A h \in HandlerIds : Posted(h)
    /\ \E h, g \in HandlerIds :
          /\ handlers[h].response.updatedBook = Len(books)
          /\ handlers[g].response.updatedBook = Len(books) - 1

\* ---------------------------------------------------------------------------
\* api/hello/route.ts

MaxParams == 2   \* parameters in the query of one URL

\* name with an empty value, name with a value, and another parameter
Pairs ==
    {[key |-> "name", value |-> ""], [key |-> "name", value |-> "sidra"],
     [key |-> "Name", value |-> "sidra"]}

\* url.searchParams of the request: the pairs of the query, in order
Queries == UNION {[1..n -> Pairs] : n \in 0..MaxParams}

Greeting ==
    "Hello, from Next.js! If you want to display your name kindly provide your name as query parameter in url"

\* a test of the value in place of the presence
has_WithValue(query, key) ==
    \E i \in 1..Len(query) : query[i].key = key /\ query[i].value # ""

\* URLSearchParams.has(key)
has(query, key) == \E i \in 1..Len(query) : query[i].key = key

\* URLSearchParams.get(key): the value of the first pair with the key
RECURSIVE get(_, _, _)
get(query, key, i) ==
    IF query[i].key = key THEN query[i].value ELSE get(query, key, i + 1)

\* GET /api/hello: if (url.searchParams.has("name")) the JSON object with
\* the message `Hello, from ${name}`, else the text of the greeting
GetHello(h, query) ==
    /\ Takes(h)
    /\ handlers' = [handlers EXCEPT ![h] =
                       [Free EXCEPT
                           !.route = "GET hello", !.pc = "responded",
                           !.query = query,
                           !.response =
                               IF has(query, "name")
                               THEN [NoResponse EXCEPT
                                        !.kind = "json",
                                        !.message = "Hello, from "
                                                       \o get(query, "name", 1)]
                               ELSE [NoResponse EXCEPT
                                        !.kind = "text",
                                        !.text = Greeting]]]
    /\ UNCHANGED <<books, books0, applied, arrivals, home>>
    /\ UNCHANGED <<config, docs, text_splitter, splits, did_split, error>>
    /\ UNCHANGED <<index_vars, caller_vars>>

\* the server after it has loaded the modules, before any request
InitHello ==
    /\ config = NoConfig
    /\ docs = <<>>
    /\ text_splitter = NoSplitter
    /\ splits = <<>>
    /\ did_split = FALSE
    /\ error = "none"
    /\ embedding_model = 1
    /\ NotIndexed
    /\ NotAsked
    /\ NotServing

NextHello ==
    \/ \E h \in HandlerIds, query \in Queries : GetHello(h, query)
    \/ \E h \in HandlerIds : Sent(h)

SpecHello == InitHello /\ [][NextHello]_vars

\* the places of the pairs of handler h's query that are named "name"
Named(h) ==
    {i \in 1..Len(handlers[h].query) : handlers[h].query[i].key = "name"}

\* C20: GET /hello answers by whether the query has a parameter name, not by
\* its value: if it has one, also an empty one, with the JSON object whose
\* message is "Hello, from " and the first value of name; if it has none,
\* with the text of the greeting; and with one of the two for every request.
C20_ByPresenceOfName ==
    \A h \in HandlerIds :
        (handlers[h].route = "GET hello" /\ handlers[h].pc = "responded") =>
            \A named \in {Named(h)} :
                IF named # {}
                THEN \E first \in named :
                        /\ \A i \in named : first <= i
                        /\ handlers[h].response.kind = "json"
                        /\ handlers[h].response.message =
                              "Hello, from " \o handlers[h].query[first].value
                        /\ handlers[h].response.text = ""
                ELSE /\ handlers[h].response.kind = "text"
                     /\ handlers[h].response.text = Greeting
                     /\ handlers[h].response.message = ""

\* name given twice, first empty: the message ends after "from "
C20_Witness ==
    \E h \in HandlerIds :
        /\ handlers[h].route = "GET hello"
        /\ handlers[h].pc = "responded"
        /\ Len(handlers[h].query) = 2
        /\ handlers[h].query[1] = [key |-> "name", value |-> ""]
        /\ handlers[h].query[2] = [key |-> "name", value |-> "sidra"]
        /\ handlers[h].response.kind = "json"
        /\ handlers[h].response.message = "Hello, from "

\* ---------------------------------------------------------------------------
\* app/page.tsx: getData and Home

\* bodies the quote API may send: a quote, an object with no content, null,
\* and text that is not JSON
QuoteBodies ==
    {[json |-> TRUE, kind |-> "object", content |-> <<"q">>],
     [json |-> TRUE, kind |-> "object", content |-> <<>>],
     [json |-> TRUE, kind |-> "null", content |-> <<>>],
     [json |-> FALSE, kind |-> "none", content |-> <<>>]}

\* responses of fetch: res.ok or not, with any of the bodies
QuoteResponses ==
    {[ok |-> ok, json |-> b.json, kind |-> b.kind, content |-> b.content] :
        ok \in BOOLEAN, b \in QuoteBodies}

\* Home is called: const quoteData = await getData(), and getData runs up to
\* await fetch("https://api.quotable.io/random")
Render(h) ==
    /\ home[h].pc = "idle"
    /\ home' = [home EXCEPT ![h] =
                   [NotRendering EXCEPT !.pc = "fetching", !.fetches = 1]]
    /\ UNCHANGED <<books, books0, handlers, applied, arrivals>>
    /\ UNCHANGED <<config, docs, text_splitter, splits, did_split, error>>
    /\ UNCHANGED <<index_vars, caller_vars>>

\* fetch rejects (no response at all): getData and Home reject with its error
FetchRejects(h) ==
    /\ home[h].pc = "fetching"
    /\ home' = [home EXCEPT ![h].pc = "failed", ![h].thrown = "fetch failed"]
    /\ UNCHANGED <<books, books0, handlers, applied, arrivals>>
    /\ UNCHANGED <<config, docs, text_splitter, splits, did_split, error>>
    /\ UNCHANGED <<index_vars, caller_vars>>

\* a getData that does not test res.ok
FetchResolves_IgnoresOk(h, res) ==
    /\ home[h].pc = "fetching"
    /\ home' = [home EXCEPT ![h].pc = "parsing", ![h].res = res,
                            ![h].arrived = TRUE, ![h].bodyUsed = TRUE]
    /\ UNCHANGED <<books, books0, handlers, applied, arrivals>>
    /\ UNCHANGED <<config, docs, text_splitter, splits, did_split, error>>
    /\ UNCHANGED <<index_vars, caller_vars>>

\* fetch resolves with res: if (!res.ok) throw new Error("failed to fetch
\* data"); otherwise return res.json(), which starts to read the body
FetchResolves(h, res) ==
    /\ home[h].pc = "fetching"
    /\ home' = IF ~res.ok
               THEN [home EXCEPT ![h].pc = "failed", ![h].res = res,
                                 ![h].arrived = TRUE,
                                 ![h].thrown = "failed to fetch data"]
               ELSE [home EXCEPT ![h].pc = "parsing", ![h].res = res,
                                 ![h].arrived = TRUE, ![h].bodyUsed = TRUE]
    /\ UNCHANGED <<books, books0, handlers, applied, arrivals>>
    /\ UNCHANGED <<config, docs, text_splitter, splits, did_split, error>>
    /\ UNCHANGED <<index_vars, caller_vars>>

\* res.json() settles: it rejects for a body that is not JSON; otherwise
\* getData returns the value and Home evaluates {quoteData.content}, which
\* throws a TypeError for null and renders nothing for undefined
JsonSettles(h) ==
    /\ home[h].pc = "parsing"
    /\ home' =
          IF ~home[h].res.json
          THEN [home EXCEPT ![h].pc = "failed", ![h].thrown = "SyntaxError"]
          ELSE IF home[h].res.kind = "null"
          THEN [home EXCEPT ![h].pc = "failed",
                            ![h].quoteData = [kind |-> "null",
                                              content |-> <<>>],
                            ![h].thrown = "TypeError"]
          ELSE [home EXCEPT ![h].pc = "rendered",
                            ![h].quoteData = [kind |-> home[h].res.kind,
                                              content |-> home[h].res.content],
                            ![h].html = home[h].res.content]
    /\ UNCHANGED <<books, books0, handlers, applied, arrivals>>
    /\ UNCHANGED <<config, docs, text_splitter, splits, did_split, error>>
    /\ UNCHANGED <<index_vars, caller_vars>>

\* the page, or the error, has gone to the client
Finished(h) ==
    /\ home[h].pc \in {"rendered", "failed"}
    /\ home' = [home EXCEPT ![h] = NotRendering]
    /\ UNCHANGED <<books, books0, handlers, applied, arrivals>>
    /\ UNCHANGED <<config, docs, text_splitter, splits, did_split, error>>
    /\ UNCHANGED <<index_vars, caller_vars>>

NextHome ==
    \/ \E h \in HandlerIds : Render(h)
    \/ \E h \in HandlerIds : FetchRejects(h)
    \/ \E h \in HandlerIds, res \in QuoteResponses : FetchResolves(h, res)
    \/ \E h \in HandlerIds : JsonSettles(h)
    \/ \E h \in HandlerIds : Finished(h)

SpecHome == InitHello /\ [][NextHome]_vars

\* what holds of every rendering whatever the response: one fetch at most,
\* and for a response that is not ok the error "failed to fetch data", the
\* body not read and no quote in the page
OneFetchAndNotOk(r) ==
    /\ r.fetches <= 1
    /\ r.pc # "idle" => r.fetches = 1
    /\ (r.arrived /\ ~r.res.ok) =>
          /\ r.pc = "failed"
          /\ r.thrown = "failed to fetch data"
          /\ ~r.bodyUsed
          /\ r.html = <<>>

\* a rendering that has ended after a response that was ok
EndedOk(r) == r.arrived /\ r.res.ok /\ r.pc \in {"rendered", "failed"}

\* C21 as stated: getData fetches once and does not retry; for a response
\* that is not ok it throws "failed to fetch data" without reading the body
\* and Home renders no quote; for a response that is ok it returns the
\* parsed JSON body and Home renders its content.
C21_OkRendersContent ==
    \A h \in HandlerIds :
        /\ OneFetchAndNotOk(home[h])
        /\ EndedOk(home[h]) =>
              /\ home[h].pc = "rendered"
              /\ home[h].quoteData.kind = home[h].res.kind
              /\ home[h].html = home[h].res.content

\* C21: getData fetches once and does not retry; for a response that is not
\* ok it throws "failed to fetch data" without reading the body and Home
\* renders no quote; for a response that is ok it returns res.json(): Home
\* renders the content of a body that is a JSON value other than null
\* (nothing when the value has no content), and the rendering ends in an
\* error, which is not "failed to fetch data", when the body is not JSON or
\* is null.
C21_OkRendersContentOfJson ==
    \A h \in HandlerIds :
        /\ OneFetchAndNotOk(home[h])
        /\ home[h].pc = "parsing" => (home[h].res.ok /\ home[h].bodyUsed)
        /\ EndedOk(home[h]) =>
              /\ home[h].bodyUsed
              /\ (home[h].res.json /\ home[h].res.kind # "null") =>
                    /\ home[h].pc = "rendered"
                    /\ home[h].quoteData.kind = home[h].res.kind
                    /\ home[h].quoteData.content = home[h].res.content
                    /\ home[h].html = home[h].res.content
                    /\ home[h].thrown = ""
              /\ (~home[h].res.json \/ home[h].res.kind = "null") =>
                    /\ home[h].pc = "failed"
                    /\ home[h].html = <<>>
                    /\ home[h].thrown
                          = IF home[h].res.json THEN "TypeError"
                            ELSE "SyntaxError"

\* one rendering shows the quote while another has failed on a response that
\* was not ok
C21_Witness ==
    \E h, g \in HandlerIds :
        /\ home[h].pc = "rendered"
        /\ home[h].res.ok
        /\ home[h].html = <<"q">>
        /\ home[g].pc = "failed"
        /\ home[g].arrived
        /\ ~home[g].res.ok
        /\ home[g].res.json
        /\ home[g].thrown = "failed to fetch data"

====
